---------------------------- MODULE Spec2Model ----------------------------
(***************************************************************************)
(* The in-memory key index of the MVCC store (server/storage/mvcc/index.go)*)
(*                                                                         *)
(* treeIndex is an ordered map from keys to keyIndex values.  The methods  *)
(* of treeIndex are modelled from index.go.  The methods of keyIndex (put, *)
(* tombstone, get, compact, keep, isEmpty) and the revision order live in  *)
(* files that are not part of the sources at hand; they are modelled from  *)
(* sections 3 and 4 of the specification.                                  *)
(***************************************************************************)
EXTENDS Integers, Sequences, FiniteSets, TLC

(***************************************************************************)
(* Revisions.                                                              *)
(***************************************************************************)
ZeroRev == [main |-> 0, sub |-> 0]

GreaterThan(a, b) ==
    \/ a.main > b.main
    \/ a.main = b.main /\ a.sub > b.sub

(***************************************************************************)
(* Bounds of the model.                                                    *)
(***************************************************************************)
\* The greatest main revision of the specification Spec.
MaxMain == 5

\* The greatest main and sub revision of the specification SpecSub.
MaxSubMain == 3

MaxSub == 1

\* The greatest value size.
MaxValueSize == 1

\* The calls that add a revision are taken while the tree holds fewer
\* revisions than this.
MaxRevs == 4

\* The greatest main revision of the specification SpecRange.
MaxRangeMain == 4

\* The number of threads that call the index concurrently.
NumProcs == 2

\* The number of keyIndex objects that exist at one time.
MaxObjs == 3

\* The greatest main revision the threads write.
MaxConcMain == 3

\* The threads start a call that adds a revision while the tree holds fewer
\* revisions than this.
MaxConcRevs == 3

\* The keys of the model, as byte strings.
Keys == {<<1>>, <<1, 2>>}

\* The keys of the specification SpecRange: a third key after the two.
RangeKeys == Keys \cup {<<2>>}

\* The byte strings the calls that range over keys are given as key and as
\* end: the keys, and strings before, between and after them.
Bytes == {<<>>, <<1>>, <<1, 1>>, <<1, 2>>, <<2>>, <<3>>}

ValueSizes == 1..MaxValueSize

\* Spec: the store's first write has main revision 2; every sub is 0.
\* The zero value is a revision a caller may pass as well.
Revs == {ZeroRev} \cup [main : 2..MaxMain, sub : {0}]

\* atRev arguments of Spec: 0 and every main revision up to MaxMain.
AtRevs == 0..MaxMain

\* SpecSub: fewer main revisions, each with several sub revisions.
SubRevs == {ZeroRev} \cup [main : 2..MaxSubMain, sub : 0..MaxSub]

SubAtRevs == 0..MaxSubMain

\* The threads.
Procs == 1..NumProcs

\* The keyIndex objects: what a *keyIndex points to.
Objs == 1..MaxObjs

\* The revisions the threads write.
ConcRevs == {ZeroRev} \cup [main : 2..MaxConcMain, sub : {0}]

\* The revisions the threads compact at: the last one written and the next.
ConcAtRevs == {MaxConcMain, MaxConcMain + 1}

(***************************************************************************)
(* Errors and absent values.                                               *)
(***************************************************************************)
\* A nil error.
Nil == "nil"

\* A nil item: what ti.tree.Get returns for a key that is not in the tree.
NilItem == [nil |-> TRUE]

ErrRevisionNotFound == "ErrRevisionNotFound"

ErrRevisionOutOfOrder == "ErrRevisionOutOfOrder"

ErrUnavailable == "ErrUnavailable"

(***************************************************************************)
(* Generic helpers.                                                        *)
(***************************************************************************)
MaxOf(S) == CHOOSE x \in S : \A y \in S : y <= x

MinLen(a, b) == IF Len(a) < Len(b) THEN Len(a) ELSE Len(b)

\* The elements of a sequence.
Elems(s) == {s[i] : i \in 1..Len(s)}

(***************************************************************************)
(* keyIndex: one key's history.                                            *)
(***************************************************************************)
EmptyGeneration == [ver |-> 0, created |-> ZeroRev, revs |-> <<>>]

\* &keyIndex{key: key}
NewKeyIndex(key) ==
    [key |-> key, modified |-> ZeroRev, valueSize |-> 0, generations |-> <<>>]

\* Unsigned lexicographic order of the keys.
Less(a, b) ==
    \E i \in 1..(MinLen(a, b) + 1) :
        /\ \A j \in 1..(i - 1) : a[j] = b[j]
        /\ \/ i > Len(a) /\ i <= Len(b)
           \/ i <= Len(a) /\ i <= Len(b) /\ a[i] < b[i]

isEmpty(ki) ==
    Len(ki.generations) = 1 /\ ki.generations[1].revs = <<>>

\* put: rejected unless rev is greater than modified; otherwise the revision
\* is appended to the last generation, which it creates when that is empty.
put(ki, rev, valueSize) ==
    IF ~GreaterThan(rev, ki.modified)
    THEN [ki |-> ki, err |-> ErrRevisionOutOfOrder]
    ELSE LET gens == IF ki.generations = <<>>
                     THEN <<EmptyGeneration>>
                     ELSE ki.generations
             n    == Len(gens)
             g    == IF gens[n].revs = <<>>
                     THEN [gens[n] EXCEPT !.created = rev, !.ver = 0]
                     ELSE gens[n]
             g2   == [g EXCEPT !.revs = Append(@, rev), !.ver = @ + 1]
         IN  [ki  |-> [ki EXCEPT !.generations = [gens EXCEPT ![n] = g2],
                                 !.modified = rev,
                                 !.valueSize = valueSize],
              err |-> Nil]

\* tombstone: the revision is appended as a write and closes the generation;
\* a fresh empty generation follows.  valueSize is what the write leaves,
\* which is not defined after a tombstone: the caller of this operator
\* chooses it.
tombstone(ki, rev, valueSize) ==
    IF isEmpty(ki)
    THEN [ki |-> ki, err |-> ErrUnavailable]
    ELSE IF ~GreaterThan(rev, ki.modified)
    THEN [ki |-> ki, err |-> ErrRevisionOutOfOrder]
    ELSE LET p == put(ki, rev, valueSize).ki
         IN  [ki  |-> [p EXCEPT !.generations = Append(@, EmptyGeneration)],
              err |-> Nil]

NoPivot == [gen |-> 0, idx |-> 0]

\* The generation and the index in it of the revision get(atRev) returns.
\* atRev = 0 means "current": the last revision of the live generation.
\* Otherwise the youngest generation whose first revision is at or before
\* atRev, and in it the latest revision at or before atRev; none when atRev
\* lies in the gap after the tombstone that closed that generation.
pivot(ki, atRev) ==
    LET gens  == ki.generations
        n     == Len(gens)
        cands == {i \in 1..n : /\ gens[i].revs # <<>>
                               /\ gens[i].revs[1].main <= atRev}
    IN  IF atRev = 0
        THEN IF n > 0 /\ gens[n].revs # <<>>
             THEN [gen |-> n, idx |-> Len(gens[n].revs)]
             ELSE NoPivot
        ELSE IF cands = {}
        THEN NoPivot
        ELSE LET gi == MaxOf(cands)
                 rs == gens[gi].revs
                 ri == MaxOf({j \in 1..Len(rs) : rs[j].main <= atRev})
             IN  IF gi < n /\ ri = Len(rs) /\ rs[ri].main < atRev
                 THEN NoPivot
                 ELSE [gen |-> gi, idx |-> ri]

NotFound ==
    [modified |-> ZeroRev, created |-> ZeroRev, ver |-> 0,
     err |-> ErrRevisionNotFound]

get(ki, atRev) ==
    LET p == pivot(ki, atRev)
    IN  IF p = NoPivot
        THEN NotFound
        ELSE [modified |-> ki.generations[p.gen].revs[p.idx],
              created  |-> ki.generations[p.gen].created,
              ver      |-> p.idx,
              err      |-> Nil]

\* All revisions of a sequence of generations.
RevsOf(gens) == UNION {Elems(gens[i].revs) : i \in 1..Len(gens)}

\* compact: drops the generations older than the pivot's and the revisions
\* before the pivot in its generation; without a pivot, drops the closed
\* generations that lie wholly before atRev.  The pivot and the surviving
\* revisions at or after atRev are added to available.
compact(ki, atRev, available) ==
    LET gens == ki.generations
        n    == Len(gens)
        p    == pivot(ki, atRev)
        old  == {i \in 1..n : /\ i < n
                              /\ gens[i].revs # <<>>
                              /\ gens[i].revs[Len(gens[i].revs)].main < atRev}
        from == IF p # NoPivot THEN p.gen
                ELSE IF old = {} THEN 1 ELSE MaxOf(old) + 1
        kept == SubSeq(gens, from, n)
        left == IF p # NoPivot
                THEN [kept EXCEPT ![1].revs = SubSeq(@, p.idx, Len(@))]
                ELSE kept
        piv  == IF p # NoPivot THEN {gens[p.gen].revs[p.idx]} ELSE {}
    IN  [ki        |-> [ki EXCEPT !.generations = left],
         available |-> available \cup piv
                         \cup {r \in RevsOf(left) : r.main >= atRev}]

\* keep: the pivot of compact, added to available; the keyIndex is not changed.
keep(ki, atRev, available) ==
    LET p == pivot(ki, atRev)
    IN  IF p = NoPivot
        THEN available
        ELSE available \cup {ki.generations[p.gen].revs[p.idx]}

(***************************************************************************)
(* treeIndex.                                                              *)
(***************************************************************************)
VARIABLES
    tree,    \* ti.tree: key -> keyIndex, NilItem for a key that is not in the tree
    ret,     \* the last call and what it returned: the error of Get and
             \* Tombstone, the set of Compact, the size of the set of Keep
    applied, \* the log SpecWrites keeps: per key, the revisions of the calls
             \* of Put and Tombstone made at increasing revisions
    heap,    \* the keyIndex objects the threads share: object -> keyIndex,
             \* NilItem for an object that is not allocated
    live,    \* ti.tree as the threads see it: key -> object, 0 when absent
    mu,      \* ti.RWMutex: the thread holding it exclusively, the threads
             \* holding it shared
    pc,      \* per thread: the line of index.go it is about to execute
    loc      \* per thread: the locals of the call it is in

\* The variables of the calls made one after another.
svars == <<tree, ret, applied>>

\* The variables of the calls made by concurrent threads.
cvars == <<heap, live, mu, pc, loc>>

vars == <<tree, ret, applied, heap, live, mu, pc, loc>>

\* ti.tree.Get(keyi)
keyIndex(t, key) == IF key \in DOMAIN t THEN t[key] ELSE NilItem

\* The keys in the tree.
Present(t) == {k \in DOMAIN t : t[k] # NilItem}

\* The keys of a set in ascending order.
RECURSIVE Ascend(_)
Ascend(S) ==
    IF S = {}
    THEN <<>>
    ELSE LET m == CHOOSE k \in S : \A o \in S \ {k} : Less(k, o)
         IN  <<m>> \o Ascend(S \ {m})

\* Put that gives the revision to a fresh keyIndex and to the one in the
\* tree as well, when there is one: the revision is stored twice.
Put_PutsTwice(t, key, rev, valueSize) ==
    LET item == keyIndex(t, key)
        once == put(IF item = NilItem THEN NewKeyIndex(key) ELSE item,
                    rev, valueSize).ki
        g    == once.generations[Len(once.generations)]
    IN  IF once.generations = <<>>
        THEN [t EXCEPT ![key] = once]
        ELSE [t EXCEPT ![key] =
                 [once EXCEPT !.generations[Len(once.generations)] =
                     [g EXCEPT !.revs = Append(@, rev), !.ver = @ + 1]]]

\* Put with the lookup of the existing item left out: a fresh keyIndex
\* replaces the one in the tree.
Put_AlwaysInserts(t, key, rev, valueSize) ==
    [t EXCEPT ![key] = put(NewKeyIndex(key), rev, valueSize).ki]

\* Put: the tree after the call.  The code ignores what put reports.
Put(t, key, rev, valueSize) ==
    LET item == keyIndex(t, key)
    IN  IF item = NilItem
        THEN [t EXCEPT ![key] = put(NewKeyIndex(key), rev, valueSize).ki]
        ELSE [t EXCEPT ![key] = put(item, rev, valueSize).ki]

\* Get with its results in the wrong order: created and modified swapped.
Get_SwapsResults(t, key, atRev) ==
    LET keyi == keyIndex(t, key)
        g    == IF keyi = NilItem THEN NotFound ELSE get(keyi, atRev)
    IN  [g EXCEPT !.modified = g.created, !.created = g.modified]

\* Get that looks the current revision up, whatever atRev is.
Get_IgnoresAtRev(t, key, atRev) ==
    LET keyi == keyIndex(t, key)
    IN  IF keyi = NilItem
        THEN NotFound
        ELSE get(keyi, 0)

Get(t, key, atRev) ==
    LET keyi == keyIndex(t, key)
    IN  IF keyi = NilItem
        THEN NotFound
        ELSE get(keyi, atRev)

\* Tombstone that, like Put, makes a keyIndex for a key that is not in the
\* tree.
Tombstone_InsertsAbsent(t, key, rev, valueSize) ==
    LET item == IF keyIndex(t, key) = NilItem
                THEN NewKeyIndex(key)
                ELSE keyIndex(t, key)
        r    == tombstone(item, rev, valueSize)
    IN  [tree |-> [t EXCEPT ![key] = r.ki], err |-> r.err]

\* Tombstone: the tree after the call and the error returned.
Tombstone(t, key, rev, valueSize) ==
    LET item == keyIndex(t, key)
    IN  IF item = NilItem
        THEN [tree |-> t, err |-> ErrRevisionNotFound]
        ELSE LET r == tombstone(item, rev, valueSize)
             IN  [tree |-> [t EXCEPT ![key] = r.ki], err |-> r.err]

\* Compact that deletes the keyIndex it has compacted when a single
\* generation is left, empty or not.
CompactItem_DeletesSingle(t, key, rev, available) ==
    LET c == compact(t[key], rev, available)
    IN  [tree      |-> IF Len(c.ki.generations) = 1
                       THEN [t EXCEPT ![key] = NilItem]
                       ELSE [t EXCEPT ![key] = c.ki],
         available |-> c.available]

\* One step of Compact's walk: compact the keyIndex in place and delete it
\* from the tree when that leaves it empty.
CompactItem(t, key, rev, available) ==
    LET c == compact(t[key], rev, available)
    IN  [tree      |-> IF isEmpty(c.ki)
                       THEN [t EXCEPT ![key] = NilItem]
                       ELSE [t EXCEPT ![key] = c.ki],
         available |-> c.available]

RECURSIVE CompactWalk(_, _, _, _)
CompactWalk(t, items, rev, available) ==
    IF items = <<>>
    THEN [tree |-> t, available |-> available]
    ELSE LET s == CompactItem(t, Head(items), rev, available)
         IN  CompactWalk(s.tree, Tail(items), rev, s.available)

\* Compact that makes the set anew for every item of the walk.
Compact_ResetsAvailable(t, rev) ==
    LET walk[i \in 0..Len(Ascend(Present(t)))] ==
            IF i = 0
            THEN [tree |-> t, available |-> {}]
            ELSE CompactItem(walk[i - 1].tree, Ascend(Present(t))[i], rev, {})
    IN  walk[Len(Ascend(Present(t)))]

\* Compact that compacts at the revision after the one asked for.
Compact_NextRev(t, rev) == CompactWalk(t, Ascend(Present(t)), rev + 1, {})

\* Compact with no other call in between: the walk over the clone.
Compact(t, rev) == CompactWalk(t, Ascend(Present(t)), rev, {})

RECURSIVE KeepWalk(_, _, _, _)
KeepWalk(t, items, rev, available) ==
    IF items = <<>>
    THEN available
    ELSE KeepWalk(t, Tail(items), rev, keep(t[Head(items)], rev, available))

Keep(t, rev) == KeepWalk(t, Ascend(Present(t)), rev, {})

\* The end argument of the calls that range over keys: nil, or a byte
\* string, which may be of length zero.
NilEnd == [nil |-> TRUE, bytes |-> <<>>]

End(bytes) == [nil |-> FALSE, bytes |-> bytes]

Ends == {NilEnd} \cup {End(b) : b \in Bytes}

\* ti.tree.AscendGreaterOrEqual(keyi, ...): the keys of the tree that are
\* not less than key, in ascending order.
AscendGreaterOrEqual(t, key) == Ascend({k \in Present(t) : ~Less(k, key)})

\* The walk of visit: it ends at the first item that is not less than end,
\* unless end is of length zero.
RECURSIVE VisitWalk(_, _)
VisitWalk(items, end) ==
    IF items = <<>>
    THEN <<>>
    ELSE IF Len(end) > 0 /\ ~Less(Head(items), end)
    THEN <<>>
    ELSE <<Head(items)>> \o VisitWalk(Tail(items), end)

\* visit: the keys of the items handed to f, for an f that returns true.
visit(t, key, end) == VisitWalk(AscendGreaterOrEqual(t, key), end.bytes)

\* The callback of Range on the items of a walk.
RECURSIVE RangeWalk(_, _, _)
RangeWalk(t, items, atRev) ==
    IF items = <<>>
    THEN [keys |-> <<>>, revs |-> <<>>]
    ELSE LET g    == get(t[Head(items)], atRev)
             rest == RangeWalk(t, Tail(items), atRev)
         IN  IF g.err = Nil
             THEN [keys |-> <<Head(items)>> \o rest.keys,
                   revs |-> <<g.modified>> \o rest.revs]
             ELSE rest

\* Range that ends its walk at the first key whose get fails.
Range_StopsAtFailure(t, key, end, atRev) ==
    LET items == visit(t, key, end)
        ok    == {n \in 0..Len(items) :
                     \A m \in 1..n : get(t[items[m]], atRev).err = Nil}
    IN  IF end.nil
        THEN LET g == Get(t, key, atRev)
             IN  IF g.err # Nil
                 THEN [keys |-> <<>>, revs |-> <<>>]
                 ELSE [keys |-> <<key>>, revs |-> <<g.modified>>]
        ELSE RangeWalk(t, SubSeq(items, 1, MaxOf(ok)), atRev)

\* Range: the keys and their revisions at atRev.  A nil slice and a slice of
\* length zero are the same sequence here.
Range(t, key, end, atRev) ==
    IF end.nil
    THEN LET g == Get(t, key, atRev)
         IN  IF g.err # Nil
             THEN [keys |-> <<>>, revs |-> <<>>]
             ELSE [keys |-> <<key>>, revs |-> <<g.modified>>]
    ELSE RangeWalk(t, visit(t, key, end), atRev)

\* The callback of Revisions on the items of a walk: every match is counted,
\* its revision is kept while fewer than limit are, or when limit <= 0.
RECURSIVE RevisionsWalk(_, _, _, _, _, _)
RevisionsWalk(t, items, atRev, limit, revs, total) ==
    IF items = <<>>
    THEN [revs |-> revs, total |-> total]
    ELSE LET g == get(t[Head(items)], atRev)
         IN  IF g.err = Nil
             THEN RevisionsWalk(t, Tail(items), atRev, limit,
                                IF limit <= 0 \/ Len(revs) < limit
                                THEN Append(revs, g.modified)
                                ELSE revs,
                                total + 1)
             ELSE RevisionsWalk(t, Tail(items), atRev, limit, revs, total)

\* Revisions that counts the revisions it returns.
Revisions_CountsReturned(t, key, end, atRev, limit) ==
    LET r == RevisionsWalk(t, visit(t, key, end), atRev, limit, <<>>, 0)
    IN  IF end.nil
        THEN IF Get(t, key, atRev).err # Nil
             THEN [revs |-> <<>>, total |-> 0]
             ELSE [revs |-> <<Get(t, key, atRev).modified>>, total |-> 1]
        ELSE [revs |-> r.revs, total |-> Len(r.revs)]

Revisions(t, key, end, atRev, limit) ==
    IF end.nil
    THEN IF Get(t, key, atRev).err # Nil
         THEN [revs |-> <<>>, total |-> 0]
         ELSE [revs |-> <<Get(t, key, atRev).modified>>, total |-> 1]
    ELSE RevisionsWalk(t, visit(t, key, end), atRev, limit, <<>>, 0)

\* The callback of CountRevisions on the items of a walk.
RECURSIVE CountWalk(_, _, _)
CountWalk(t, items, atRev) ==
    IF items = <<>>
    THEN 0
    ELSE (IF get(t[Head(items)], atRev).err = Nil THEN 1 ELSE 0)
            + CountWalk(t, Tail(items), atRev)

CountRevisions(t, key, end, atRev) ==
    IF end.nil
    THEN IF Get(t, key, atRev).err # Nil THEN 0 ELSE 1
    ELSE CountWalk(t, visit(t, key, end), atRev)

\* The revisions of a sequence of generations, oldest first.
RECURSIVE RevSeq(_)
RevSeq(gens) ==
    IF gens = <<>> THEN <<>> ELSE Head(gens).revs \o RevSeq(Tail(gens))

\* since: the revisions of the key with main >= rev, in increasing order.
since(ki, rev) ==
    SelectSeq(RevSeq(ki.generations), LAMBDA r : r.main >= rev)

\* sort.Sort(revisions(revs)): insertion of a revision into a sorted sequence.
RECURSIVE SortInsert(_, _)
SortInsert(r, sorted) ==
    IF sorted = <<>>
    THEN <<r>>
    ELSE IF GreaterThan(r, Head(sorted))
    THEN <<Head(sorted)>> \o SortInsert(r, Tail(sorted))
    ELSE <<r>> \o sorted

\* sort.Sort(revisions(revs)): ascending by main, then by sub.
RECURSIVE Sort(_)
Sort(revs) ==
    IF revs = <<>> THEN <<>> ELSE SortInsert(Head(revs), Sort(Tail(revs)))

\* The walk of RangeSince: the since of every item up to end, one after
\* another.
RECURSIVE SinceWalk(_, _, _, _)
SinceWalk(t, items, end, rev) ==
    IF items = <<>>
    THEN <<>>
    ELSE IF Len(end) > 0 /\ ~Less(Head(items), end)
    THEN <<>>
    ELSE since(t[Head(items)], rev) \o SinceWalk(t, Tail(items), end, rev)

\* RangeSince that returns the revisions in the order of the walk.
RangeSince_Unsorted(t, key, end, rev) ==
    IF end.nil
    THEN IF keyIndex(t, key) = NilItem
         THEN <<>>
         ELSE since(keyIndex(t, key), rev)
    ELSE SinceWalk(t, AscendGreaterOrEqual(t, key), end.bytes, rev)

RangeSince(t, key, end, rev) ==
    IF end.nil
    THEN IF keyIndex(t, key) = NilItem
         THEN <<>>
         ELSE since(keyIndex(t, key), rev)
    ELSE Sort(SinceWalk(t, AscendGreaterOrEqual(t, key), end.bytes, rev))

\* The callback of RangeValueSize on the items of a walk.
RECURSIVE ValueSizeWalk(_, _)
ValueSizeWalk(t, items) ==
    IF items = <<>>
    THEN [keys |-> <<>>, valueSizes |-> <<>>]
    ELSE LET rest == ValueSizeWalk(t, Tail(items))
         IN  [keys       |-> <<Head(items)>> \o rest.keys,
              valueSizes |-> <<t[Head(items)].valueSize>> \o rest.valueSizes]

\* RangeValueSize: nothing when key is not in the tree; otherwise the key
\* alone when end is nil, and the walk of visit when it is not.
RangeValueSize(t, key, end) ==
    LET item == keyIndex(t, key)
    IN  IF item = NilItem
        THEN [keys |-> <<>>, valueSizes |-> <<>>]
        ELSE IF end.nil
        THEN [keys |-> <<key>>, valueSizes |-> <<item.valueSize>>]
        ELSE ValueSizeWalk(t, visit(t, key, end))

\* GetValueSize: the valueSize field of the item of key, when the tree has
\* one.
GetValueSize(t, key) ==
    LET item == keyIndex(t, key)
    IN  IF item = NilItem
        THEN [valueSize |-> -1, isFound |-> FALSE]
        ELSE [valueSize |-> item.valueSize, isFound |-> TRUE]

\* keyIndex.equal: the keys, the modified revisions and the generations
\* (created, ver, revs) are equal.
equal(a, b) ==
    /\ a.key = b.key
    /\ a.modified = b.modified
    /\ a.generations = b.generations

\* The walk of Equal over the items of a: it ends at the first item that b
\* does not hold, where the type assertion on nil panics, or whose keyIndex
\* in b is not equal.
RECURSIVE EqualWalk(_, _, _)
EqualWalk(a, b, items) ==
    IF items = <<>>
    THEN "true"
    ELSE IF keyIndex(b, Head(items)) = NilItem
    THEN "panic"
    ELSE IF ~equal(a[Head(items)], keyIndex(b, Head(items)))
    THEN "false"
    ELSE EqualWalk(a, b, Tail(items))

\* Equal: "true", "false", or "panic" when b.tree.Get(item) returns nil and
\* the type assertion .(*keyIndex) fails (line 307).
Equal(a, b) ==
    IF Cardinality(Present(a)) # Cardinality(Present(b))
    THEN "false"
    ELSE EqualWalk(a, b, Ascend(Present(a)))

\* Insert: ti.tree.ReplaceOrInsert(ki).
Insert(t, ki) == [t EXCEPT ![ki.key] = ki]

\* The number of revisions the tree holds.
RECURSIVE CountRevs(_, _)
CountRevs(t, items) ==
    IF items = <<>>
    THEN 0
    ELSE Cardinality(RevsOf(t[Head(items)].generations))
            + CountRevs(t, Tail(items))

Size(t) == CountRevs(t, Ascend(Present(t)))

(***************************************************************************)
(* The lock of the index and the locals of a thread.                       *)
(***************************************************************************)
\* sync.RWMutex, held by nobody.
Unlocked == [w |-> 0, r |-> {}]

\* ti.Lock() returns when nobody holds the lock.
CanLock(m) == m.w = 0 /\ m.r = {}

\* ti.RLock() returns when nobody holds the lock exclusively.
CanRLock(m) == m.w = 0

\* The locals of a thread that is in no call: the clone of Compact and the
\* place of its walk in it, its rev and available, and the item a lookup
\* returned.
NoLocals == [clone |-> <<>>, i |-> 0, rev |-> 0, available |-> {}, item |-> 0]

(***************************************************************************)
(* The calls.                                                              *)
(***************************************************************************)
Init ==
    /\ tree = [k \in RangeKeys |-> NilItem]
    /\ ret = [op |-> "none"]
    /\ applied = [k \in Keys |-> {}]
    /\ heap = [o \in Objs |-> NilItem]
    /\ live = [k \in Keys |-> 0]
    /\ mu = Unlocked
    /\ pc = [p \in Procs |-> "idle"]
    /\ loc = [p \in Procs |-> NoLocals]

PutCall(key, rev, valueSize) ==
    /\ Size(tree) < MaxRevs
    /\ tree' = Put(tree, key, rev, valueSize)
    /\ ret' = [op |-> "Put"]
    /\ UNCHANGED applied
    /\ UNCHANGED cvars

GetCall(key, atRev) ==
    /\ ret' = [op |-> "Get", err |-> Get(tree, key, atRev).err]
    /\ UNCHANGED <<tree, applied>>
    /\ UNCHANGED cvars

TombstoneCall(key, rev, valueSize) ==
    /\ Size(tree) < MaxRevs
    /\ LET r == Tombstone(tree, key, rev, valueSize)
       IN  /\ tree' = r.tree
           /\ ret' = [op |-> "Tombstone", err |-> r.err]
    /\ UNCHANGED applied
    /\ UNCHANGED cvars

CompactCall(rev) ==
    /\ LET r == Compact(tree, rev)
       IN  /\ tree' = r.tree
           /\ ret' = [op |-> "Compact", available |-> r.available]
    /\ UNCHANGED applied
    /\ UNCHANGED cvars

KeepCall(rev) ==
    /\ ret' = [op |-> "Keep", len |-> Cardinality(Keep(tree, rev))]
    /\ UNCHANGED <<tree, applied>>
    /\ UNCHANGED cvars

\* Any call with its arguments drawn from the given sets.
NextOver(R, A, V) ==
    \/ \E key \in Keys, rev \in R, valueSize \in V :
           PutCall(key, rev, valueSize)
    \/ \E key \in Keys, atRev \in A : GetCall(key, atRev)
    \/ \E key \in Keys, rev \in R, valueSize \in V :
           TombstoneCall(key, rev, valueSize)
    \/ \E rev \in A : CompactCall(rev)
    \/ \E rev \in A : KeepCall(rev)

Next == NextOver(Revs, AtRevs, ValueSizes)

Spec == Init /\ [][Next]_vars

NextSub == NextOver(SubRevs, SubAtRevs, ValueSizes)

SpecSub == Init /\ [][NextSub]_vars

(***************************************************************************)
(* SpecWrites: Put, Tombstone and Get only, with a log of the writes.  A   *)
(* call enters the log of its key when its revision is a revision (not the *)
(* zero value), is greater than every revision logged for the key, and the *)
(* call returned without an error.                                         *)
(***************************************************************************)
Logged(key, rev, err) ==
    IF /\ rev # ZeroRev
       /\ err = Nil
       /\ \A a \in applied[key] : GreaterThan(rev, a)
    THEN [applied EXCEPT ![key] = @ \cup {rev}]
    ELSE applied

PutLogged(key, rev, valueSize) ==
    /\ Size(tree) < MaxRevs
    /\ tree' = Put(tree, key, rev, valueSize)
    /\ ret' = [op |-> "Put"]
    /\ applied' = Logged(key, rev, Nil)
    /\ UNCHANGED cvars

TombstoneLogged(key, rev, valueSize) ==
    /\ Size(tree) < MaxRevs
    /\ LET r == Tombstone(tree, key, rev, valueSize)
       IN  /\ tree' = r.tree
           /\ ret' = [op |-> "Tombstone", err |-> r.err]
           /\ applied' = Logged(key, rev, r.err)
    /\ UNCHANGED cvars

NextWrites ==
    \/ \E key \in Keys, rev \in SubRevs, valueSize \in ValueSizes :
           PutLogged(key, rev, valueSize)
    \/ \E key \in Keys, rev \in SubRevs, valueSize \in ValueSizes :
           TombstoneLogged(key, rev, valueSize)
    \/ \E key \in Keys, atRev \in SubAtRevs : GetCall(key, atRev)

SpecWrites == Init /\ [][NextWrites]_vars

(***************************************************************************)
(* SpecRange and SpecSizes: the calls that range over keys, the calls that *)
(* return value sizes and Equal, on an index of three keys.  ret holds the *)
(* last call and the number of keys or revisions it returned; all that a   *)
(* call returns on the index of a state is given by its operator.          *)
(***************************************************************************)
\* The revisions written in SpecRange, and the atRev and rev its calls are
\* asked about; the calls made are at the last revision.
RangeRevs == [main : 2..MaxRangeMain, sub : {0}]

RangeAtRevs == 0..MaxRangeMain

\* The value sizes written in SpecSizes.
Sizes == {1, 2}

\* The ends the calls of SpecRange are made with: nil, the byte string of
\* length zero, and a byte string after every key.
CallEnds == {NilEnd, End(<<>>), End(<<3>>)}

\* The revisions written in SpecSizes.
SizeRevs == [main : 2..MaxSubMain, sub : {0}]

\* The limits Revisions is called with.
Limits == {-1, 0, 1, 2}

\* Indexes to compare an index with: the index itself, the index after one
\* more call, without one of its keys, and with the history of one of its
\* keys under another key.
Others(t) ==
    {t}
      \cup {Put(t, k, r, v) : k \in RangeKeys, r \in SizeRevs, v \in Sizes}
      \cup {Tombstone(t, k, r, v).tree :
               k \in RangeKeys, r \in SizeRevs, v \in Sizes}
      \cup {[t EXCEPT ![k] = NilItem] : k \in RangeKeys}
      \cup {[t EXCEPT ![k] = NilItem, ![o] = [t[k] EXCEPT !.key = o]] :
               k \in Present(t), o \in RangeKeys \ Present(t)}

RangeCall(key, end, atRev) ==
    /\ ret' = [op |-> "Range", len |-> Len(Range(tree, key, end, atRev).keys)]
    /\ UNCHANGED <<tree, applied>>
    /\ UNCHANGED cvars

RevisionsCall(key, end, atRev, limit) ==
    /\ ret' = [op  |-> "Revisions",
               len |-> Revisions(tree, key, end, atRev, limit).total]
    /\ UNCHANGED <<tree, applied>>
    /\ UNCHANGED cvars

CountRevisionsCall(key, end, atRev) ==
    /\ ret' = [op  |-> "CountRevisions",
               len |-> CountRevisions(tree, key, end, atRev)]
    /\ UNCHANGED <<tree, applied>>
    /\ UNCHANGED cvars

RangeSinceCall(key, end, rev) ==
    /\ ret' = [op |-> "RangeSince", len |-> Len(RangeSince(tree, key, end, rev))]
    /\ UNCHANGED <<tree, applied>>
    /\ UNCHANGED cvars

RangeValueSizeCall(key, end) ==
    /\ ret' = [op  |-> "RangeValueSize",
               len |-> Len(RangeValueSize(tree, key, end).keys)]
    /\ UNCHANGED <<tree, applied>>
    /\ UNCHANGED cvars

GetValueSizeCall(key) ==
    /\ ret' = [op |-> "GetValueSize", found |-> GetValueSize(tree, key).isFound]
    /\ UNCHANGED <<tree, applied>>
    /\ UNCHANGED cvars

EqualCall(b) ==
    /\ ret' = [op |-> "Equal", equal |-> Equal(tree, b)]
    /\ UNCHANGED <<tree, applied>>
    /\ UNCHANGED cvars

NextRange ==
    \/ \E key \in RangeKeys, rev \in RangeRevs, valueSize \in ValueSizes :
           PutCall(key, rev, valueSize)
    \/ \E key \in RangeKeys, rev \in RangeRevs, valueSize \in ValueSizes :
           TombstoneCall(key, rev, valueSize)
    \/ \E key \in Bytes, end \in CallEnds : RangeCall(key, end, MaxRangeMain)
    \/ \E key \in Bytes, end \in CallEnds, limit \in {0, 1} :
           RevisionsCall(key, end, MaxRangeMain, limit)
    \/ \E key \in Bytes, end \in CallEnds :
           CountRevisionsCall(key, end, MaxRangeMain)
    \/ \E key \in Bytes, end \in CallEnds :
           RangeSinceCall(key, end, MaxRangeMain)

SpecRange == Init /\ [][NextRange]_vars

NextSizes ==
    \/ \E key \in RangeKeys, rev \in SizeRevs, valueSize \in Sizes :
           PutCall(key, rev, valueSize)
    \/ \E key \in RangeKeys, rev \in SizeRevs, valueSize \in Sizes :
           TombstoneCall(key, rev, valueSize)
    \/ \E key \in Bytes, end \in CallEnds : RangeValueSizeCall(key, end)
    \/ \E key \in Bytes : GetValueSizeCall(key)
    \/ \E b \in Others(tree) : EqualCall(b)

SpecSizes == Init /\ [][NextSizes]_vars

(***************************************************************************)
(* The index shared by threads.  The tree holds pointers: heap gives the   *)
(* keyIndex an object holds, live the object the tree holds under a key.   *)
(* A call is a sequence of steps: taking the lock is a step, the critical  *)
(* section that follows and ends with the release of the lock is a step.   *)
(* The arguments of a call do not depend on the state of the index; a step *)
(* draws them where it first uses them.                                    *)
(***************************************************************************)
\* ti.tree as a map from keys to keyIndex values.
LiveTree(h, l) == [k \in Keys |-> IF l[k] = 0 THEN NilItem ELSE h[l[k]]]

\* There is an object to allocate.
HasFresh(h) == \E o \in Objs : h[o] = NilItem

\* The object an allocation returns.
Fresh(h) ==
    CHOOSE o \in Objs : h[o] = NilItem /\ \A q \in Objs : h[q] = NilItem => o <= q

\* The objects the tree, a clone or a local of a thread points to.
Reachable(l, lc) ==
    {l[k] : k \in Keys} \cup UNION {Elems(lc[p].clone) : p \in Procs}
        \cup {lc[p].item : p \in Procs}

\* The heap after the garbage collector has freed what nothing points to.
Collect(h, l, lc) ==
    [o \in Objs |-> IF o \in Reachable(l, lc) THEN h[o] ELSE NilItem]

\* Put on the shared tree: a fresh object enters the tree when the key is
\* absent, otherwise the object in the tree is changed in place.
PutObj(h, l, key, rev, valueSize) ==
    LET t == Put(LiveTree(h, l), key, rev, valueSize)
        o == IF l[key] = 0 THEN Fresh(h) ELSE l[key]
    IN  [heap |-> [h EXCEPT ![o] = t[key]],
         live |-> [l EXCEPT ![key] = o]]

\* Tombstone that removes the key from the tree once its generation is
\* closed.
TombstoneObj_Deletes(h, l, key, rev, valueSize) ==
    LET r == Tombstone(LiveTree(h, l), key, rev, valueSize)
    IN  [heap |-> IF l[key] = 0 THEN h ELSE [h EXCEPT ![l[key]] = r.tree[key]],
         live |-> IF r.err = Nil THEN [l EXCEPT ![key] = 0] ELSE l,
         err  |-> r.err]

\* Tombstone on the shared tree: the object in the tree is changed in place.
TombstoneObj(h, l, key, rev, valueSize) ==
    LET r == Tombstone(LiveTree(h, l), key, rev, valueSize)
    IN  [heap |-> IF l[key] = 0 THEN h ELSE [h EXCEPT ![l[key]] = r.tree[key]],
         live |-> l,
         err  |-> r.err]

\* Insert: ti.tree.ReplaceOrInsert(ki) stores the caller's object under its
\* key, in the place of the object the tree held there.
InsertObj(h, l, ki) ==
    LET o == Fresh(h)
    IN  [heap |-> [h EXCEPT ![o] = ki],
         live |-> [l EXCEPT ![ki.key] = o]]

\* The keyIndex values Insert is called with: one revision in one generation.
InsertItems ==
    {put(NewKeyIndex(k), r, v).ki :
        k \in Keys, r \in ConcRevs \ {ZeroRev}, v \in ValueSizes}

\* One step of Compact's walk on the shared tree: keyi, the object o of the
\* clone, is compacted in place; when that leaves it empty, ti.tree.Delete
\* removes the item the tree holds under the key of keyi and returns it, nil
\* when there is none, and Compact panics.
CompactObj(h, l, o, rev, available) ==
    LET c   == compact(h[o], rev, available)
        key == h[o].key
    IN  [heap      |-> [h EXCEPT ![o] = c.ki],
         live      |-> IF isEmpty(c.ki) THEN [l EXCEPT ![key] = 0] ELSE l,
         available |-> c.available,
         panic     |-> isEmpty(c.ki) /\ l[key] = 0]

\* clone := ti.tree.Clone(): the objects of the tree in the order of their keys.
Clone(h, l) ==
    LET keys == Ascend(Present(LiveTree(h, l)))
    IN  [n \in 1..Len(keys) |-> l[keys[n]]]

\* The steps of the threads leave the variables of the other calls alone.
Return(p) ==
    /\ pc' = [pc EXCEPT ![p] = "idle"]
    /\ UNCHANGED svars

\* Put, line 60: ti.Lock().
PutLock(p) ==
    /\ pc[p] = "idle"
    /\ CanLock(mu)
    /\ Size(LiveTree(heap, live)) < MaxConcRevs
    /\ HasFresh(heap)
    /\ mu' = [mu EXCEPT !.w = p]
    /\ pc' = [pc EXCEPT ![p] = "Put62"]
    /\ UNCHANGED <<heap, live, loc>>
    /\ UNCHANGED svars

\* Put, lines 62 to 69 and the deferred ti.Unlock().
PutBody(p, key, rev, valueSize) ==
    /\ pc[p] = "Put62"
    /\ LET r == PutObj(heap, live, key, rev, valueSize)
       IN  /\ live' = r.live
           /\ heap' = Collect(r.heap, r.live, loc)
    /\ mu' = [mu EXCEPT !.w = 0]
    /\ UNCHANGED loc
    /\ Return(p)

\* Tombstone, line 214: ti.Lock().
TombstoneLock(p) ==
    /\ pc[p] = "idle"
    /\ CanLock(mu)
    /\ Size(LiveTree(heap, live)) < MaxConcRevs
    /\ mu' = [mu EXCEPT !.w = p]
    /\ pc' = [pc EXCEPT ![p] = "Tombstone216"]
    /\ UNCHANGED <<heap, live, loc>>
    /\ UNCHANGED svars

\* Tombstone, lines 216 to 222 and the deferred ti.Unlock().
TombstoneBody(p, key, rev, valueSize) ==
    /\ pc[p] = "Tombstone216"
    /\ LET r == TombstoneObj(heap, live, key, rev, valueSize)
       IN  /\ live' = r.live
           /\ heap' = r.heap
    /\ mu' = [mu EXCEPT !.w = 0]
    /\ UNCHANGED loc
    /\ Return(p)

\* Insert, line 319: ti.Lock().
InsertLock(p) ==
    /\ pc[p] = "idle"
    /\ CanLock(mu)
    /\ HasFresh(heap)
    /\ mu' = [mu EXCEPT !.w = p]
    /\ pc' = [pc EXCEPT ![p] = "Insert321"]
    /\ UNCHANGED <<heap, live, loc>>
    /\ UNCHANGED svars

\* Insert, line 321 and the deferred ti.Unlock().
InsertBody(p, ki) ==
    /\ pc[p] = "Insert321"
    /\ LET r == InsertObj(heap, live, ki)
       IN  /\ live' = r.live
           /\ heap' = Collect(r.heap, r.live, loc)
    /\ mu' = [mu EXCEPT !.w = 0]
    /\ UNCHANGED loc
    /\ Return(p)

\* Compact, lines 259 to 263: the clone is taken under the lock.  The walk
\* over an empty clone returns at once.
CompactClone(p, rev) ==
    /\ pc[p] = "idle"
    /\ CanLock(mu)
    /\ LET clone == Clone(heap, live)
       IN  /\ loc' = [loc EXCEPT ![p] = IF clone = <<>>
                                        THEN NoLocals
                                        ELSE [NoLocals EXCEPT !.clone = clone,
                                                              !.i = 1,
                                                              !.rev = rev]]
           /\ pc' = [pc EXCEPT ![p] = IF clone = <<>> THEN "idle"
                                      ELSE "Compact269"]
    /\ UNCHANGED <<heap, live, mu>>
    /\ UNCHANGED svars

\* Compact, line 269: ti.Lock() for the next item of the clone.
CompactLock(p) ==
    /\ pc[p] = "Compact269"
    /\ CanLock(mu)
    /\ mu' = [mu EXCEPT !.w = p]
    /\ pc' = [pc EXCEPT ![p] = "Compact270"]
    /\ UNCHANGED <<heap, live, loc>>
    /\ UNCHANGED svars

\* Compact, lines 270 to 278: the item is compacted and, when empty, deleted
\* from the tree.  After a panic the thread is gone and the lock stays held.
\* After the last item Compact returns and its clone is garbage.
CompactStep(p) ==
    /\ pc[p] = "Compact270"
    /\ LET l == loc[p]
           r == CompactObj(heap, live, l.clone[l.i], l.rev, l.available)
           last == l.i = Len(l.clone)
       IN  IF r.panic
           THEN /\ pc' = [pc EXCEPT ![p] = "panic"]
                /\ heap' = r.heap
                /\ UNCHANGED <<live, mu, loc>>
           ELSE /\ live' = r.live
                /\ loc' = [loc EXCEPT ![p] =
                              IF last THEN NoLocals
                              ELSE [l EXCEPT !.i = @ + 1,
                                             !.available = r.available]]
                /\ heap' = Collect(r.heap, live', loc')
                /\ mu' = [mu EXCEPT !.w = 0]
                /\ pc' = [pc EXCEPT ![p] = IF last THEN "idle"
                                           ELSE "Compact269"]
    /\ UNCHANGED svars

\* Get, line 74: ti.RLock().
GetRLock(p) ==
    /\ pc[p] = "idle"
    /\ CanRLock(mu)
    /\ mu' = [mu EXCEPT !.r = @ \cup {p}]
    /\ pc' = [pc EXCEPT ![p] = "Get76"]
    /\ UNCHANGED <<heap, live, loc>>
    /\ UNCHANGED svars

\* Get, lines 76 to 79 and the deferred ti.RUnlock().
GetBody(p) ==
    /\ pc[p] = "Get76"
    /\ mu' = [mu EXCEPT !.r = @ \ {p}]
    /\ UNCHANGED <<heap, live, loc>>
    /\ Return(p)

\* Keep, line 286: ti.RLock().
KeepRLock(p) ==
    /\ pc[p] = "idle"
    /\ CanRLock(mu)
    /\ mu' = [mu EXCEPT !.r = @ \cup {p}]
    /\ pc' = [pc EXCEPT ![p] = "Keep288"]
    /\ UNCHANGED <<heap, live, loc>>
    /\ UNCHANGED svars

\* Keep, lines 288 to 293 and the deferred ti.RUnlock().
KeepBody(p) ==
    /\ pc[p] = "Keep288"
    /\ mu' = [mu EXCEPT !.r = @ \ {p}]
    /\ UNCHANGED <<heap, live, loc>>
    /\ Return(p)

\* What ti.keyIndex(keyi) returns to a thread that holds no lock: the object
\* the tree holds under the key; any object or nil when another thread is in
\* a critical section that changes the tree, a data race.
Lookup(key) ==
    IF mu.w = 0
    THEN {live[key]}
    ELSE {0} \cup {o \in Objs : heap[o] # NilItem}

\* GetValueSize, line 117: the lookup, made without the lock.
GetValueSizeLookup(p, key) ==
    /\ pc[p] = "idle"
    /\ \E item \in Lookup(key) :
           /\ loc' = [loc EXCEPT ![p].item = item]
           /\ pc' = [pc EXCEPT ![p] = IF item = 0 THEN "idle"
                                      ELSE "GetValueSize122"]
    /\ UNCHANGED <<heap, live, mu>>
    /\ UNCHANGED svars

\* GetValueSize, line 122: item.valueSize is read without the lock.
GetValueSizeRead(p) ==
    /\ pc[p] = "GetValueSize122"
    /\ loc' = [loc EXCEPT ![p] = NoLocals]
    /\ heap' = Collect(heap, live, loc')
    /\ UNCHANGED <<live, mu>>
    /\ Return(p)

\* RangeValueSize, lines 88 to 94: the lookup, made without the lock, and
\* the test of end, nil or not.
RangeValueSizeLookup(p, key, endIsNil) ==
    /\ pc[p] = "idle"
    /\ \E item \in Lookup(key) :
           /\ loc' = [loc EXCEPT ![p].item = item]
           /\ pc' = [pc EXCEPT ![p] = IF item = 0 THEN "idle"
                                      ELSE IF endIsNil THEN "RangeValueSize95"
                                      ELSE "RangeValueSize100"]
    /\ UNCHANGED <<heap, live, mu>>
    /\ UNCHANGED svars

\* RangeValueSize with end == nil, line 95: item.valueSize is read without
\* the lock.
RangeValueSizeSingle(p) ==
    /\ pc[p] = "RangeValueSize95"
    /\ loc' = [loc EXCEPT ![p] = NoLocals]
    /\ heap' = Collect(heap, live, loc')
    /\ UNCHANGED <<live, mu>>
    /\ Return(p)

\* RangeValueSize with another end, line 100: visit takes the shared lock
\* (line 141).
RangeValueSizeRLock(p) ==
    /\ pc[p] = "RangeValueSize100"
    /\ CanRLock(mu)
    /\ mu' = [mu EXCEPT !.r = @ \cup {p}]
    /\ pc' = [pc EXCEPT ![p] = "visit144"]
    /\ loc' = [loc EXCEPT ![p] = NoLocals]
    /\ heap' = Collect(heap, live, loc')
    /\ UNCHANGED live
    /\ UNCHANGED svars

\* visit, lines 144 to 152 and the deferred ti.RUnlock().
RangeValueSizeVisit(p) ==
    /\ pc[p] = "visit144"
    /\ mu' = [mu EXCEPT !.r = @ \ {p}]
    /\ UNCHANGED <<heap, live, loc>>
    /\ Return(p)

\* Equal, line 299: the lengths of the two trees are read without the lock.
\* The other index is not part of the state: the lengths differ or not.
EqualLen(p) ==
    /\ pc[p] = "idle"
    /\ \E same \in BOOLEAN :
           pc' = [pc EXCEPT ![p] = IF same THEN "Equal305" ELSE "idle"]
    /\ UNCHANGED <<heap, live, mu, loc>>
    /\ UNCHANGED svars

\* Equal, lines 305 to 315: the walk over ti.tree, made without the lock.
EqualAscend(p) ==
    /\ pc[p] = "Equal305"
    /\ UNCHANGED <<heap, live, mu, loc>>
    /\ Return(p)

\* The thread that calls Compact in SpecCompact.
Compactor == 1

\* SpecCompact: Put and Tombstone by every thread, Compact by one thread,
\* which makes one call of Compact at a time.
NextCompact ==
    \/ \E p \in Procs : PutLock(p)
    \/ \E p \in Procs, key \in Keys, rev \in ConcRevs, valueSize \in ValueSizes :
           PutBody(p, key, rev, valueSize)
    \/ \E p \in Procs : TombstoneLock(p)
    \/ \E p \in Procs, key \in Keys, rev \in ConcRevs, valueSize \in ValueSizes :
           TombstoneBody(p, key, rev, valueSize)
    \/ \E rev \in ConcAtRevs : CompactClone(Compactor, rev)
    \/ CompactLock(Compactor)
    \/ CompactStep(Compactor)

SpecCompact == Init /\ [][NextCompact]_vars

\* SpecThreads: every thread makes any call that changes the index, Compact
\* at the revision after the last one written.
NextThreads ==
    \/ \E p \in Procs : PutLock(p)
    \/ \E p \in Procs, key \in Keys, rev \in ConcRevs, valueSize \in ValueSizes :
           PutBody(p, key, rev, valueSize)
    \/ \E p \in Procs : TombstoneLock(p)
    \/ \E p \in Procs, key \in Keys, rev \in ConcRevs, valueSize \in ValueSizes :
           TombstoneBody(p, key, rev, valueSize)
    \/ \E p \in Procs : InsertLock(p)
    \/ \E p \in Procs, ki \in InsertItems : InsertBody(p, ki)
    \/ \E p \in Procs : CompactClone(p, MaxConcMain + 1)
    \/ \E p \in Procs : CompactLock(p)
    \/ \E p \in Procs : CompactStep(p)

SpecThreads == Init /\ [][NextThreads]_vars

\* The threads of SpecLock that make the calls that change the index, and
\* the threads that make the calls that read it.
Writers == {1}

Readers == Procs \ Writers

\* SpecLock: the writers make the calls that change the index while the
\* readers make the calls that read it.
NextLock ==
    \/ \E p \in Writers : PutLock(p)
    \/ \E p \in Writers, key \in Keys, rev \in ConcRevs, valueSize \in ValueSizes :
           PutBody(p, key, rev, valueSize)
    \/ \E p \in Writers : TombstoneLock(p)
    \/ \E p \in Writers, key \in Keys, rev \in ConcRevs, valueSize \in ValueSizes :
           TombstoneBody(p, key, rev, valueSize)
    \/ \E p \in Writers : InsertLock(p)
    \/ \E p \in Writers, ki \in InsertItems : InsertBody(p, ki)
    \/ \E p \in Writers, rev \in ConcAtRevs : CompactClone(p, rev)
    \/ \E p \in Writers : CompactLock(p)
    \/ \E p \in Writers : CompactStep(p)
    \/ \E p \in Readers : GetRLock(p)
    \/ \E p \in Readers : GetBody(p)
    \/ \E p \in Readers : KeepRLock(p)
    \/ \E p \in Readers : KeepBody(p)
    \/ \E p \in Readers, key \in Keys : GetValueSizeLookup(p, key)
    \/ \E p \in Readers : GetValueSizeRead(p)
    \/ \E p \in Readers, key \in Keys, endIsNil \in BOOLEAN :
           RangeValueSizeLookup(p, key, endIsNil)
    \/ \E p \in Readers : RangeValueSizeSingle(p)
    \/ \E p \in Readers : RangeValueSizeRLock(p)
    \/ \E p \in Readers : RangeValueSizeVisit(p)
    \/ \E p \in Readers : EqualLen(p)
    \/ \E p \in Readers : EqualAscend(p)

SpecLock == Init /\ [][NextLock]_vars

(***************************************************************************)
(* Properties.                                                             *)
(***************************************************************************)
\* The greatest revision of a non-empty set of revisions.
Greatest(S) == CHOOSE r \in S : \A o \in S \ {r} : GreaterThan(r, o)

\* C1, as stated: after Put and Tombstone calls on a key at increasing
\* revisions r1 < ... < rn, Get(key, main of ri) succeeds and returns
\* modified = ri, for every i.
C1_GetReturnsEachRevision ==
    \A k \in Keys : \A r \in applied[k] :
        LET g == Get(tree, k, r.main)
        IN  g.err = Nil /\ g.modified = r

\* C1, amended: after Put and Tombstone calls on a key at increasing
\* revisions (the Tombstone calls having succeeded), Get(key, main of ri)
\* succeeds and returns the greatest rj that has the main of ri: it is ri
\* itself exactly when no later call has the same main.
C1_GetReturnsLastOfMain ==
    \A k \in Keys : \A r \in applied[k] :
        LET g == Get(tree, k, r.main)
        IN  /\ g.err = Nil
            /\ g.modified = Greatest({a \in applied[k] : a.main = r.main})

\* C1, witness: a key written at three increasing revisions, two of them
\* with the same main, one of them a tombstone.
C1_Witness ==
    \E k \in Keys :
        /\ Cardinality(applied[k]) >= 3
        /\ \E a, b \in applied[k] : a # b /\ a.main = b.main
        /\ Len(tree[k].generations) >= 2

\* The arguments over which the properties quantify: those of every
\* specification.
AllAtRevs == AtRevs \cup SubAtRevs

AllRevs == Revs \cup SubRevs

\* The revisions a key holds in the tree; none for a key that is not in it.
Held(t, k) == IF t[k] = NilItem THEN {} ELSE RevsOf(t[k].generations)

\* C2: for every key and every atRev > 0, Get(key, atRev) returns either a
\* revision of the key with main <= atRev than which no revision of the key
\* with main <= atRev is greater, or RevisionNotFound with zero revisions and
\* ver 0; it returns RevisionNotFound when the key is not in the tree and
\* when atRev is before every revision of the key.
C2_GetReturnsLatestAtRev ==
    \A k \in Keys : \A a \in AllAtRevs \ {0} :
        LET g == Get(tree, k, a)
        IN  /\ g.err \in {Nil, ErrRevisionNotFound}
            /\ g.err = Nil =>
                   /\ g.modified \in Held(tree, k)
                   /\ g.modified.main <= a
                   /\ \A o \in Held(tree, k) :
                          o.main <= a => ~GreaterThan(o, g.modified)
            /\ g.err = ErrRevisionNotFound => g = NotFound
            /\ (\A o \in Held(tree, k) : o.main > a) =>
                   g.err = ErrRevisionNotFound

\* C2, witness: Get has returned, and there is a key and an atRev for which
\* it returns the later of two revisions with one main while the key holds a
\* revision after atRev as well; another key is not in the tree.
C2_Witness ==
    /\ ret.op = "Get"
    /\ ret.err = Nil
    /\ \E k \in Keys : \E a \in AllAtRevs \ {0} :
           LET g == Get(tree, k, a)
           IN  /\ g.err = Nil
               /\ \E o \in Held(tree, k) :
                      o.main = g.modified.main /\ GreaterThan(g.modified, o)
               /\ \E o \in Held(tree, k) : o.main > a
    /\ \E k \in Keys : tree[k] = NilItem


\* The generations of a key of the tree that hold the revision r.
GensWith(t, k, r) ==
    {i \in 1..Len(t[k].generations) : r \in Elems(t[k].generations[i].revs)}

\* Whether the key holds no revision after r with the main of r.
LastOfMain(t, k, r) ==
    \A o \in Held(t, k) : o.main = r.main => ~GreaterThan(o, r)

\* C3, as stated: with the revision r it returns, Get reports created = the
\* first revision of the generation that holds r and ver = the position of r
\* in that generation; Get at the revision of the first Put after a Tombstone
\* returns created = that revision and ver = 1.
C3_CreatedIsFirstOfGeneration ==
    \A k \in Keys : \A a \in AllAtRevs :
        LET g == Get(tree, k, a)
        IN  g.err = Nil =>
                \E i \in GensWith(tree, k, g.modified) :
                    LET gen == tree[k].generations[i]
                    IN  /\ g.created = gen.revs[1]
                        /\ g.ver \in 1..Len(gen.revs)
                        /\ gen.revs[g.ver] = g.modified

\* C3, amended: with the revision r it returns, Get reports created = the
\* revision that began the generation that holds r, which is the first
\* revision of that generation unless Compact has removed it (it removes
\* revisions only from the first generation of a key), and ver = the
\* position of r among the revisions the generation holds; the first write
\* after a Tombstone begins a generation, and Get at the revision of that
\* write returns that revision, created = that revision and ver = 1 when no
\* later write of the key has the same main.
C3_CreatedBeganGeneration ==
    \A k \in Keys :
        /\ \A a \in AllAtRevs :
               LET g == Get(tree, k, a)
               IN  g.err = Nil =>
                       \E i \in GensWith(tree, k, g.modified) :
                           LET gen == tree[k].generations[i]
                           IN  /\ g.created = gen.created
                               /\ ~GreaterThan(g.created, gen.revs[1])
                               /\ (i > 1 \/ Len(gen.revs) = gen.ver) =>
                                      g.created = gen.revs[1]
                               /\ g.ver \in 1..Len(gen.revs)
                               /\ gen.revs[g.ver] = g.modified
        /\ tree[k] # NilItem =>
               \A i \in 2..Len(tree[k].generations) :
                   LET gen == tree[k].generations[i]
                   IN  gen.revs # <<>> =>
                           LET g == Get(tree, k, gen.revs[1].main)
                           IN  LastOfMain(tree, k, gen.revs[1]) =>
                                   /\ g.err = Nil
                                   /\ g.modified = gen.revs[1]
                                   /\ g.created = gen.revs[1]
                                   /\ g.ver = 1

\* C3, witness: Get has returned; a key holds a generation from which
\* Compact has removed the first revisions and, after its tombstone, a
\* second generation begun by a Put.
C3_Witness ==
    /\ ret.op = "Get"
    /\ ret.err = Nil
    /\ \E k \in Keys :
           /\ tree[k] # NilItem
           /\ Len(tree[k].generations) >= 2
           /\ tree[k].generations[1].ver > Len(tree[k].generations[1].revs)
           /\ tree[k].generations[2].revs # <<>>
           /\ Get(tree, k, tree[k].generations[2].revs[1].main).ver = 1


\* C4: a Tombstone that fails leaves the index as it was and reports the
\* right error: RevisionNotFound for a key that is not in the tree,
\* RevisionOutOfOrder for a revision that is not greater than the modified
\* revision of the key; the keys of the tree and the generations, modified
\* and valueSize of every key are then those before the call.
C4_FailedTombstoneChangesNothing ==
    \A key \in Keys : \A rev \in AllRevs : \A valueSize \in ValueSizes :
        LET r == Tombstone(tree, key, rev, valueSize)
        IN  /\ tree[key] = NilItem => r.err = ErrRevisionNotFound
            /\ (/\ tree[key] # NilItem
                /\ ~GreaterThan(rev, tree[key].modified)) =>
                   r.err = ErrRevisionOutOfOrder
            /\ r.err # Nil => r.tree = tree

\* C4, witness: a Tombstone has returned RevisionOutOfOrder for a key that
\* holds revisions, while another key is not in the tree.
C4_Witness ==
    /\ ret.op = "Tombstone"
    /\ ret.err = ErrRevisionOutOfOrder
    /\ \E k \in Keys : Held(tree, k) # {}
    /\ \E k \in Keys : tree[k] = NilItem

\* The revisions of a sequence of generations, oldest first.
RECURSIVE Concat(_)
Concat(gens) ==
    IF gens = <<>> THEN <<>> ELSE Head(gens).revs \o Concat(Tail(gens))

StrictlyIncreasing(revs) ==
    \A i \in 1..(Len(revs) - 1) : GreaterThan(revs[i + 1], revs[i])

\* The greatest revision of an increasing sequence; the zero value, "no
\* revision", for the empty sequence.
MaxRev(revs) == IF revs = <<>> THEN ZeroRev ELSE revs[Len(revs)]

Live(t, k) ==
    /\ t[k] # NilItem
    /\ t[k].generations # <<>>
    /\ t[k].generations[Len(t[k].generations)].revs # <<>>

\* C6: for every live key and every atRev, after Compact(atRev) the key is
\* still in the tree, Get(key, 0) returns the modified revision it returned
\* before, and that revision is in the set Compact returned when it is the
\* one Get(key, atRev) returned before.
C6_CompactKeepsLatestOfLiveKey ==
    \A rev \in AllAtRevs : \A k \in Keys :
        LET c      == Compact(tree, rev)
            before == Get(tree, k, 0)
            after  == Get(c.tree, k, 0)
            at     == Get(tree, k, rev)
        IN  Live(tree, k) =>
                /\ c.tree[k] # NilItem
                /\ before.err = Nil
                /\ after.err = Nil
                /\ after.modified = before.modified
                /\ (at.err = Nil /\ at.modified = before.modified) =>
                       before.modified \in c.available

\* C6, witness: Compact has returned a set with the latest revisions of two
\* live keys, after removing an older revision of one of them.
C6_Witness ==
    /\ ret.op = "Compact"
    /\ \A k \in Keys :
           /\ Live(tree, k)
           /\ Get(tree, k, 0).modified \in ret.available
    /\ \E k \in Keys :
           tree[k].generations[1].ver > Len(tree[k].generations[1].revs)

\* C7: after Compact(rev), for every key still in the tree, Get(key, rev)
\* returns the modified and created revisions and the error it returned
\* before the compaction; ver is the position of the revision among those
\* that remain in its generation.
C7_CompactPreservesGetAtRev ==
    \A rev \in AllAtRevs : \A k \in Keys :
        LET c      == Compact(tree, rev)
            before == Get(tree, k, rev)
            after  == Get(c.tree, k, rev)
        IN  (tree[k] # NilItem /\ c.tree[k] # NilItem) =>
                /\ after.err = before.err
                /\ after.modified = before.modified
                /\ after.created = before.created
                /\ after.err = Nil =>
                       /\ after.ver <= before.ver
                       /\ \E i \in GensWith(c.tree, k, after.modified) :
                              c.tree[k].generations[i].revs[after.ver]
                                  = after.modified

\* C7, witness: Compact has returned and has removed revisions of a key
\* before the one Get returns at some revision, which is not the first of
\* its generation.
C7_Witness ==
    /\ ret.op = "Compact"
    /\ \E k \in Keys : \E a \in AllAtRevs \ {0} :
           /\ tree[k] # NilItem
           /\ Get(tree, k, a).err = Nil
           /\ Get(tree, k, a).ver = 1
           /\ Get(tree, k, a).created # Get(tree, k, a).modified
           /\ Get(tree, k, a).modified \in ret.available


Rev(main, sub) == [main |-> main, sub |-> sub]

\* The history Put (2,0), Put (3,0), Tombstone (4,0), Put (5,0) of a key,
\* and what Compact(3) leaves of it.
HistoryS5 ==
    << [ver |-> 3, created |-> Rev(2, 0),
        revs |-> <<Rev(2, 0), Rev(3, 0), Rev(4, 0)>>],
       [ver |-> 1, created |-> Rev(5, 0), revs |-> <<Rev(5, 0)>>] >>

CompactedS5 ==
    << [ver |-> 3, created |-> Rev(2, 0), revs |-> <<Rev(3, 0), Rev(4, 0)>>],
       [ver |-> 1, created |-> Rev(5, 0), revs |-> <<Rev(5, 0)>>] >>

\* C8: the set Compact(atRev) returns holds, for every key for which
\* Get(key, atRev) returns a revision, that revision (the pivot) and every
\* later revision of the key that is left after the compaction; for the
\* history Put (2,0), Put (3,0), Tombstone (4,0), Put (5,0), Compact(3)
\* returns a set with (3,0), (4,0) and (5,0), and Get(key, 2) then returns
\* RevisionNotFound.
C8_CompactReturnsPivotAndLater ==
    \A k \in Keys :
        /\ \A rev \in AllAtRevs :
               LET c  == Compact(tree, rev)
                   at == Get(tree, k, rev)
               IN  at.err = Nil =>
                       /\ at.modified \in c.available
                       /\ \A r \in Held(c.tree, k) :
                              GreaterThan(r, at.modified) => r \in c.available
        /\ (tree[k] # NilItem /\ tree[k].generations = HistoryS5) =>
               LET c == Compact(tree, 3)
               IN  /\ {Rev(3, 0), Rev(4, 0), Rev(5, 0)} \subseteq c.available
                   /\ Rev(2, 0) \notin Held(c.tree, k)
                   /\ Get(c.tree, k, 2) = NotFound

\* C8, witness: Compact has returned a set with (3,0), (4,0) and (5,0) and
\* has left, of the history Put (2,0), Put (3,0), Tombstone (4,0), Put (5,0)
\* of a key, the revisions from (3,0) on.
C8_Witness ==
    /\ ret.op = "Compact"
    /\ {Rev(3, 0), Rev(4, 0), Rev(5, 0)} \subseteq ret.available
    /\ \E k \in Keys :
           /\ tree[k] # NilItem
           /\ tree[k].generations = CompactedS5
           /\ Get(tree, k, 2) = NotFound

\* C9: for every state of the index and every rev, Keep(rev) returns the set
\* that Compact(rev) returns on that state (and leaves the tree as it is).
C9_KeepEqualsCompact ==
    \A rev \in AllAtRevs : Keep(tree, rev) = Compact(tree, rev).available

\* C10: Compact is idempotent: a second Compact(rev), with no call in
\* between, returns the set the first one returned and leaves the tree as
\* the first one left it.
C10_CompactIdempotent ==
    \A rev \in AllAtRevs :
        LET first  == Compact(tree, rev)
            second == Compact(first.tree, rev)
        IN  /\ second.available = first.available
            /\ second.tree = first.tree

\* C10, witness: Compact has returned a non-empty set and has removed the
\* older revisions of a live key; another key is not in the tree.
C10_Witness ==
    /\ ret.op = "Compact"
    /\ ret.available # {}
    /\ \E k \in Keys :
           /\ Live(tree, k)
           /\ tree[k].generations[1].ver > Len(tree[k].generations[1].revs)
    /\ \E k \in Keys : tree[k] = NilItem

(***************************************************************************)
(* Properties of the index shared by threads.                              *)
(***************************************************************************)
\* The item Compact's walk of thread p is at.
CompactItemOf(p) == loc[p].clone[loc[p].i]

\* What the step of Compact thread p is about to make does.
CompactStepOf(p) ==
    CompactObj(heap, live, CompactItemOf(p), loc[p].rev, loc[p].available)

\* C11: with one call of Compact at a time among calls of Put and
\* Tombstone, Compact never panics; while Compact is in the step for an item
\* it holds the lock exclusively and no Put or Tombstone is in its critical
\* section; and when the step leaves the item empty, the key of the item is
\* in the tree, so that the delete succeeds.
C11_CompactStepAtomicNoAbort ==
    \A p \in Procs :
        /\ pc[p] # "panic"
        /\ pc[p] = "Compact270" =>
              /\ mu = [w |-> p, r |-> {}]
              /\ \A q \in Procs \ {p} : pc[q] \notin {"Put62", "Tombstone216"}
              /\ isEmpty(CompactStepOf(p).heap[CompactItemOf(p)]) =>
                     /\ live[heap[CompactItemOf(p)].key] # 0
                     /\ ~CompactStepOf(p).panic

\* C11, witness: Compact is in the step for the second item of its clone,
\* which the step leaves empty; the key of the first item, which Compact has
\* deleted, is in the tree again, with an object a later Put has made.
C11_Witness ==
    \E p \in Procs :
        /\ pc[p] = "Compact270"
        /\ loc[p].i = 2
        /\ isEmpty(CompactStepOf(p).heap[CompactItemOf(p)])
        /\ isEmpty(heap[loc[p].clone[1]])
        /\ live[heap[loc[p].clone[1]].key] \notin {0, loc[p].clone[1]}

\* The thread is at a line that reads the tree or a field of a keyIndex.
Reading(p) ==
    pc[p] \in {"Get76", "Keep288", "visit144", "GetValueSize122",
               "RangeValueSize95", "Equal305"}

\* The thread is at a line that changes the tree or a keyIndex.
Mutating(p) ==
    pc[p] \in {"Put62", "Tombstone216", "Insert321", "Compact270"}

\* C12, as stated: a thread that is reading the tree or a keyIndex holds the
\* lock shared, a thread that is changing them holds it exclusively, and no
\* thread reads while another thread changes them.
C12_ReadsSharedWritesExclusive ==
    /\ \A p \in Procs : Reading(p) => p \in mu.r
    /\ \A p \in Procs : Mutating(p) => mu.w = p
    /\ \A p, q \in Procs : ~(Reading(p) /\ Mutating(q))

(***************************************************************************)
(* Properties of the calls that range over keys.                           *)
(***************************************************************************)
\* The index without a key.
EmptyTree == [k \in RangeKeys |-> NilItem]

\* Scenario S2: Put "a"@(2,0), "b"@(3,0), "c"@(4,0), with <<1>>, <<1, 2>>
\* and <<2>> as the keys "a", "b" and "c", and <<3>> as "d".
TreeS2 ==
    Put(Put(Put(EmptyTree, <<1>>, Rev(2, 0), 1), <<1, 2>>, Rev(3, 0), 1),
        <<2>>, Rev(4, 0), 1)

\* The keys of the tree in [key, end).
InRange(t, key, end) == {k \in Present(t) : ~Less(k, key) /\ Less(k, end)}

\* The keys of the tree in [key, end) for which get(atRev) succeeds.
Matches(t, key, end, atRev) ==
    {k \in InRange(t, key, end) : get(t[k], atRev).err = Nil}

\* C13: Range(key, end, atRev) with an end that is not of length zero
\* returns the keys of the tree in [key, end) for which get(atRev) succeeds,
\* in ascending order, each with the revision get(atRev) returns for it;
\* on the index of scenario S2, Range("a", "d", 4) returns the three keys
\* with (2,0), (3,0), (4,0).
C13_RangeReturnsMatchesInOrder ==
    ret.op = "Range" =>
        /\ \A key \in Bytes, end \in Bytes \ {<<>>}, atRev \in RangeAtRevs :
               LET r    == Range(tree, key, End(end), atRev)
                   want == Ascend(Matches(tree, key, end, atRev))
               IN  /\ r.keys = want
                   /\ Len(r.revs) = Len(want)
                   /\ \A i \in 1..Len(want) :
                          r.revs[i] = get(tree[want[i]], atRev).modified
        /\ Range(TreeS2, <<1>>, End(<<3>>), 4) =
               [keys |-> <<<<1>>, <<1, 2>>, <<2>>>>,
                revs |-> <<Rev(2, 0), Rev(3, 0), Rev(4, 0)>>]

\* C13, witness: Range has been called on an index where, at some atRev,
\* get fails for the first key and succeeds for the two keys after it, and
\* Range over all keys returns these two.
C13_Witness ==
    /\ ret.op = "Range"
    /\ Present(tree) = RangeKeys
    /\ \E atRev \in RangeAtRevs :
           /\ get(tree[<<1>>], atRev).err # Nil
           /\ Range(tree, <<1>>, End(<<3>>), atRev).keys = <<<<1, 2>>, <<2>>>>

\* The first n elements of a sequence, all of it when it has fewer.
Prefix(s, n) == SubSeq(s, 1, IF n < Len(s) THEN n ELSE Len(s))

\* C14: for every key, end, atRev and limit, Revisions returns as total the
\* number of keys Range returns for the same arguments, which CountRevisions
\* returns as well and which, for an end that is not nil and not of length
\* zero, is the number of keys in [key, end) whose get(atRev) succeeds; revs
\* is the revisions of Range, all of them when limit <= 0 and the first
\* min(limit, total) of them when limit > 0.
C14_RevisionsCountsAllReturnsLimit ==
    ret.op = "Revisions" =>
        \A key \in Bytes, end \in Ends, atRev \in RangeAtRevs, limit \in Limits :
            LET r     == Revisions(tree, key, end, atRev, limit)
                range == Range(tree, key, end, atRev)
            IN  /\ r.total = Len(range.keys)
                /\ r.total = CountRevisions(tree, key, end, atRev)
                /\ (~end.nil /\ end.bytes # <<>>) =>
                       r.total = Cardinality(Matches(tree, key, end.bytes, atRev))
                /\ limit <= 0 => r.revs = range.revs
                /\ limit > 0 => r.revs = Prefix(range.revs, limit)
                /\ Len(r.revs) = IF limit > 0 /\ limit < r.total
                                 THEN limit
                                 ELSE r.total

\* C14, witness: Revisions has been called on an index of three keys whose
\* get succeeds at some atRev: with limit 2 it returns two revisions and a
\* total of three, with limit 0 all three.
C14_Witness ==
    /\ ret.op = "Revisions"
    /\ \E atRev \in RangeAtRevs :
           /\ Revisions(tree, <<1>>, End(<<3>>), atRev, 2).total = 3
           /\ Len(Revisions(tree, <<1>>, End(<<3>>), atRev, 2).revs) = 2
           /\ Len(Revisions(tree, <<1>>, End(<<3>>), atRev, 0).revs) = 3
           /\ CountRevisions(tree, <<1>>, End(<<3>>), atRev) = 3

\* How many times r occurs in a sequence.
Occurrences(s, r) == Cardinality({i \in 1..Len(s) : s[i] = r})

\* How many times r occurs in the since(rev) of the keys of a sequence.
RECURSIVE SinceOccurrences(_, _, _, _)
SinceOccurrences(t, items, rev, r) ==
    IF items = <<>>
    THEN 0
    ELSE Occurrences(since(t[Head(items)], rev), r)
            + SinceOccurrences(t, Tail(items), rev, r)

\* A sequence of revisions is in ascending order.
Ascending(s) == \A i, j \in 1..Len(s) : i < j => ~GreaterThan(s[i], s[j])

\* Scenario S4: Put "a"@(2,0), "b"@(3,0), "a"@(4,0), "c"@(5,0).
TreeS4 ==
    Put(Put(Put(Put(EmptyTree, <<1>>, Rev(2, 0), 1), <<1, 2>>, Rev(3, 0), 1),
            <<1>>, Rev(4, 0), 1),
        <<2>>, Rev(5, 0), 1)

\* C15: RangeSince(key, end, rev) with an end that is not of length zero
\* returns a sequence in ascending order of revision in which every
\* revision occurs as often as in the since(rev) of the keys of the tree in
\* [key, end) together; with end == nil it returns since(rev) of the key,
\* and nothing when the key is not in the tree; on the index of scenario
\* S4, RangeSince("a", "d", 3) returns (3,0), (4,0), (5,0).
C15_RangeSinceSortedUnionOfSince ==
    ret.op = "RangeSince" =>
        /\ \A key \in Bytes, end \in Bytes \ {<<>>}, rev \in RangeAtRevs :
               LET r == RangeSince(tree, key, End(end), rev)
               IN  /\ Ascending(r)
                   /\ \A x \in RangeRevs :
                          Occurrences(r, x) =
                              SinceOccurrences(tree,
                                               Ascend(InRange(tree, key, end)),
                                               rev, x)
                   /\ \A i \in 1..Len(r) : r[i] \in RangeRevs /\ r[i].main >= rev
        /\ \A key \in Bytes, rev \in RangeAtRevs :
               RangeSince(tree, key, NilEnd, rev) =
                   IF key \in Present(tree)
                   THEN since(tree[key], rev)
                   ELSE <<>>
        /\ RangeSince(TreeS4, <<1>>, End(<<3>>), 3) =
               <<Rev(3, 0), Rev(4, 0), Rev(5, 0)>>

\* C15, witness: RangeSince has been called on an index where the
\* revisions of two keys interleave, so that the walk over the keys does
\* not meet them in ascending order, and two keys hold the same revision.
C15_Witness ==
    /\ ret.op = "RangeSince"
    /\ RangeSince_Unsorted(tree, <<1>>, End(<<3>>), 2)
           # RangeSince(tree, <<1>>, End(<<3>>), 2)
    /\ \E x \in RangeRevs :
           Occurrences(RangeSince(tree, <<1>>, End(<<3>>), 2), x) = 2

\* C16, as stated: called with an end of length zero that is not nil,
\* Range, Revisions, CountRevisions, RangeSince and RangeValueSize return
\* what they return with end == nil, the result for the single key.
C16_EmptyEndIsNilEnd ==
    \A key \in Bytes, atRev \in RangeAtRevs :
        /\ Range(tree, key, End(<<>>), atRev) = Range(tree, key, NilEnd, atRev)
        /\ \A limit \in Limits :
               Revisions(tree, key, End(<<>>), atRev, limit) =
                   Revisions(tree, key, NilEnd, atRev, limit)
        /\ CountRevisions(tree, key, End(<<>>), atRev) =
               CountRevisions(tree, key, NilEnd, atRev)
        /\ RangeSince(tree, key, End(<<>>), atRev) =
               RangeSince(tree, key, NilEnd, atRev)
        /\ RangeValueSize(tree, key, End(<<>>)) =
               RangeValueSize(tree, key, NilEnd)

\* C17, as stated: Equal returns "true" when the two trees hold as many
\* keys, the same keys, and under each key keyIndex values that are equal,
\* and "false" in every other case.
C17_EqualReturnsBool ==
    \A b \in Others(tree) :
        Equal(tree, b) =
            IF /\ Cardinality(Present(tree)) = Cardinality(Present(b))
               /\ Present(tree) = Present(b)
               /\ \A k \in Present(tree) : equal(tree[k], b[k])
            THEN "true"
            ELSE "false"

\* C18, as stated: while no thread holds the lock exclusively, no keyIndex
\* in the tree is empty, and every keyIndex in the tree holds at least one
\* revision.
C18_NoEmptyKeyIndexInTree ==
    mu.w = 0 =>
        \A k \in Keys :
            live[k] # 0 =>
                /\ ~isEmpty(heap[live[k]])
                /\ RevsOf(heap[live[k]].generations) # {}

\* C19, as stated: when a step of Compact leaves its item empty and deletes
\* the entry of the tree under the key of the item, that entry is the item
\* itself; a keyIndex that is not empty is never the one deleted.
C19_CompactDeletesItsOwnItem ==
    \A p \in Procs :
        (/\ pc[p] = "Compact270"
         /\ isEmpty(CompactStepOf(p).heap[CompactItemOf(p)])
         /\ live[heap[CompactItemOf(p)].key] # 0)
        => /\ live[heap[CompactItemOf(p)].key] = CompactItemOf(p)
           /\ isEmpty(CompactStepOf(p).heap[live[heap[CompactItemOf(p)].key]])

\* The valueSize fields of the keys of a sequence.
ValueSizesOf(t, keys) == [n \in 1..Len(keys) |-> t[keys[n]].valueSize]

\* C20, as stated: for every start key, in the tree or not, and every end
\* that is not of length zero, RangeValueSize returns the keys of the tree
\* in [key, end) in ascending order, each with its valueSize; GetValueSize
\* finds exactly the keys of the tree and returns their valueSize; and the
\* valueSize both return for a key is the one of the last Put applied to it.
C20_RangeValueSizeReturnsKeysInRange ==
    ret.op \in {"RangeValueSize", "GetValueSize"} =>
        /\ \A key \in Bytes, end \in Bytes \ {<<>>} :
               LET r    == RangeValueSize(tree, key, End(end))
                   want == Ascend(InRange(tree, key, end))
               IN  /\ r.keys = want
                   /\ r.valueSizes = ValueSizesOf(tree, want)
        /\ \A key \in Bytes :
               LET g == GetValueSize(tree, key)
               IN  /\ g.isFound = (key \in Present(tree))
                   /\ g.isFound => g.valueSize = tree[key].valueSize
        /\ \A key \in RangeKeys, rev \in SizeRevs, valueSize \in Sizes :
               LET item == keyIndex(tree, key)
                   t2   == Put(tree, key, rev, valueSize)
               IN  (item = NilItem \/ GreaterThan(rev, item.modified)) =>
                       /\ GetValueSize(t2, key) =
                              [valueSize |-> valueSize, isFound |-> TRUE]
                       /\ RangeValueSize(t2, key, NilEnd).valueSizes =
                              <<valueSize>>


=============================================================================
